---- MODULE Spec2Model ----
(***************************************************************************)
(* Model of app/etl.py: the readiness gates, the schema loader, the        *)
(* chunker and the one-shot PostgreSQL -> Neo4j load performed by etl().   *)
(* The graph store is modelled by the Cypher semantics of the statements   *)
(* the program sends (UNWIND / MERGE / MATCH / SET).                       *)
(***************************************************************************)
EXTENDS Integers, Sequences, FiniteSets

\* ---------------------------------------------------------------- bounds
\* Rows per source table, and rows in the whole source snapshot.
MaxRows == 2
MaxTotal == 4
\* chunk(df, BATCH): the program passes 100; the model scales the batch
\* size down so that small tables still span several batches.
BatchSize == 1
\* Failed connectivity checks a gate is observed through.
MaxFails == 2
\* Length of the schema file, in characters.
MaxTextLen == 3
\* Invocations of etl() against the same graph.
MaxRuns == 2
\* Inputs of the chunker when checked on its own.
MaxChunkLen == 4
MaxChunkSize == 4

\* --------------------------------------------------------------- helpers
Min(a, b) == IF a < b THEN a ELSE b

SeqsUpTo(S, n) == UNION {[1..k -> S] : k \in 0..n}

RECURSIVE SelectRows(_, _)
\* df[cond]: the rows satisfying the condition, in their original order.
SelectRows(df, keep) ==
    IF df = <<>> THEN <<>>
    ELSE IF keep[1] THEN <<df[1]>> \o SelectRows(Tail(df), Tail(keep))
         ELSE SelectRows(Tail(df), Tail(keep))

RECURSIVE Concat(_)
Concat(ss) == IF ss = <<>> THEN <<>> ELSE ss[1] \o Concat(Tail(ss))

\* --------------------------------------------------------------- chunker
RECURSIVE range(_, _, _)
\* Python's range(start, stop, step) for step > 0.
range(start, stop, step) ==
    IF start >= stop THEN <<>>
    ELSE <<start>> \o range(start + step, stop, step)

\* df.iloc[start : stop]: 0-based, stop exclusive, clipped to the length.
iloc(df, start, stop) == SubSeq(df, start + 1, Min(stop, Len(df)))

\* chunk with a range that stops before a final partial batch.
chunk_full_batches_only(df, size) ==
    LET starts == range(0, Len(df) - size + 1, size)
    IN  [k \in 1..Len(starts) |-> iloc(df, starts[k], starts[k] + size)]

\* chunk(df, size): the batches the generator yields, in order.
chunk(df, size) ==
    LET starts == range(0, Len(df), size)
    IN  [k \in 1..Len(starts) |-> iloc(df, starts[k], starts[k] + size)]

\* --------------------------------------------------------- schema loader
\* A text is a sequence of one-character strings.
Chars == {"a", " ", ";"}
Whitespace == {" "}

RECURSIVE split(_, _)
\* str.split(sep): the segments between separators, empty ones included.
split(text, sep) ==
    IF \A i \in 1..Len(text) : text[i] # sep THEN <<text>>
    ELSE LET i == CHOOSE j \in 1..Len(text) :
                      /\ text[j] = sep
                      /\ \A k \in 1..(j - 1) : text[k] # sep
         IN  <<SubSeq(text, 1, i - 1)>> \o split(SubSeq(text, i + 1, Len(text)), sep)

RECURSIVE lstrip(_)
lstrip(s) ==
    IF s # <<>> /\ s[1] \in Whitespace THEN lstrip(Tail(s)) ELSE s

RECURSIVE rstrip(_)
rstrip(s) ==
    IF s # <<>> /\ s[Len(s)] \in Whitespace THEN rstrip(SubSeq(s, 1, Len(s) - 1)) ELSE s

\* str.strip()
strip(s) == rstrip(lstrip(s))

\* statements = [s.strip() for s in text.split(";") if s.strip()]
ParseStatements(text) ==
    LET parts == split(text, ";")
        kept == [i \in 1..Len(parts) |-> strip(parts[i]) # <<>>]
        sel == SelectRows(parts, kept)
    IN  [i \in 1..Len(sel) |-> strip(sel[i])]

\* ------------------------------------------------- graph store semantics
\* The graph: nodes and relationships in creation order.  A node's position
\* is its identity; a relationship names its endpoints by position.
EmptyGraph == [nodes |-> <<>>, rels |-> <<>>]

\* MATCH (n:Label {id: id}): the nodes matching the pattern.
MatchNodes(g, label, id) ==
    {i \in 1..Len(g.nodes) : g.nodes[i].label = label /\ g.nodes[i].id = id}

\* CREATE in place of MERGE: a node is added whether or not one matches.
MergeNode_create(g, label, id) ==
    [g EXCEPT !.nodes = Append(@, [label |-> label, id |-> id, props |-> <<>>])]

\* MERGE (n:Label {id: id}): create the node only when nothing matches.
MergeNode(g, label, id) ==
    IF MatchNodes(g, label, id) # {} THEN g
    ELSE [g EXCEPT !.nodes = Append(@, [label |-> label, id |-> id, props |-> <<>>])]

\* SET n.p = v, ... on every node bound by the preceding clause.
SetNodeProps(g, S, props) ==
    [g EXCEPT !.nodes = [i \in 1..Len(@) |->
        IF i \in S THEN [@[i] EXCEPT !.props = props] ELSE @[i]]]

\* The relationships matching (src)-[:kind]->(dst).
MatchRels(g, kind, src, dst) ==
    {j \in 1..Len(g.rels) :
        g.rels[j].kind = kind /\ g.rels[j].src = src /\ g.rels[j].dst = dst}

\* ON CREATE SET in place of SET: a matched relationship keeps its properties.
MergeRel_on_create_set(g, kind, src, dst, props) ==
    IF MatchRels(g, kind, src, dst) # {} THEN g
    ELSE [g EXCEPT !.rels =
            Append(@, [kind |-> kind, src |-> src, dst |-> dst, props |-> props])]

\* MERGE (src)-[r:kind]->(dst) SET r.p = v for one bound pair of nodes.
MergeRel(g, kind, src, dst, props) ==
    IF MatchRels(g, kind, src, dst) # {}
    THEN [g EXCEPT !.rels = [j \in 1..Len(@) |->
            IF j \in MatchRels(g, kind, src, dst)
            THEN [@[j] EXCEPT !.props = props] ELSE @[j]]]
    ELSE [g EXCEPT !.rels =
            Append(@, [kind |-> kind, src |-> src, dst |-> dst, props |-> props])]

RECURSIVE MergeRelPairs(_, _, _, _, _, _)
\* MERGE (src)-[r:kind]->(dst) SET ... for every pair the MATCH clauses
\* bound: pairs are numbered k = 1 .. n*n over the n nodes of the graph.
MergeRelPairs(g, kind, S, D, props, k) ==
    LET n == Len(g.nodes)
        src == ((k - 1) \div n) + 1
        dst == ((k - 1) % n) + 1
    IN  IF n = 0 \/ k > n * n THEN g
        ELSE IF src \in S /\ dst \in D
             THEN MergeRelPairs(MergeRel(g, kind, src, dst, props), kind, S, D, props, k + 1)
             ELSE MergeRelPairs(g, kind, S, D, props, k + 1)

\* MERGE (c:Category {id: row.id}) SET c.name = row.name
LoadCategoryRow(g, row) ==
    LET g1 == MergeNode(g, "Category", row.id)
    IN  SetNodeProps(g1, MatchNodes(g1, "Category", row.id), [name |-> row.name])

\* The category MATCH placed before the product MERGE: no category, no row.
LoadProductRow_match_first(g, row) ==
    IF MatchNodes(g, "Category", row.category_id) = {} THEN g
    ELSE LET g1 == MergeNode(g, "Product", row.id)
             P == MatchNodes(g1, "Product", row.id)
             g2 == SetNodeProps(g1, P, [name |-> row.name, price |-> row.price])
         IN  MergeRelPairs(g2, "IN_CATEGORY", P,
                           MatchNodes(g2, "Category", row.category_id), <<>>, 1)

\* MERGE (p:Product {id: row.id}) SET p.name, p.price WITH p, row
\* MATCH (c:Category {id: row.category_id}) MERGE (p)-[:IN_CATEGORY]->(c)
LoadProductRow(g, row) ==
    LET g1 == MergeNode(g, "Product", row.id)
        P == MatchNodes(g1, "Product", row.id)
        g2 == SetNodeProps(g1, P, [name |-> row.name, price |-> row.price])
    IN  MergeRelPairs(g2, "IN_CATEGORY", P,
                      MatchNodes(g2, "Category", row.category_id), <<>>, 1)

\* MERGE (c:Customer {id: row.id}) SET c.name, c.join_date
LoadCustomerRow(g, row) ==
    LET g1 == MergeNode(g, "Customer", row.id)
    IN  SetNodeProps(g1, MatchNodes(g1, "Customer", row.id),
                     [name |-> row.name, join_date |-> row.join_date])

\* PLACED merged from the order to the customer.
LoadOrderRow_reversed(g, row) ==
    LET g1 == MergeNode(g, "Order", row.id)
        O == MatchNodes(g1, "Order", row.id)
        g2 == SetNodeProps(g1, O, [ts |-> row.ts])
    IN  MergeRelPairs(g2, "PLACED", O,
                      MatchNodes(g2, "Customer", row.customer_id), <<>>, 1)

\* MERGE (o:Order {id: row.id}) SET o.ts WITH o, row
\* MATCH (c:Customer {id: row.customer_id}) MERGE (c)-[:PLACED]->(o)
LoadOrderRow(g, row) ==
    LET g1 == MergeNode(g, "Order", row.id)
        O == MatchNodes(g1, "Order", row.id)
        g2 == SetNodeProps(g1, O, [ts |-> row.ts])
    IN  MergeRelPairs(g2, "PLACED",
                      MatchNodes(g2, "Customer", row.customer_id), O, <<>>, 1)

\* MATCH (o:Order {id: row.order_id}) MATCH (p:Product {id: row.product_id})
\* MERGE (o)-[r:CONTAINS]->(p) SET r.quantity = row.quantity
LoadOrderItemRow(g, row) ==
    MergeRelPairs(g, "CONTAINS", MatchNodes(g, "Order", row.order_id),
                  MatchNodes(g, "Product", row.product_id),
                  [quantity |-> row.quantity], 1)

\* MATCH (c:Customer {id: row.customer_id}) MATCH (p:Product {id: row.product_id})
\* MERGE (c)-[r:KIND]->(p) SET r.ts = row.ts, KIND being VIEW, CLICK or ADD_TO_CART
LoadEventRow(g, row, kind) ==
    MergeRelPairs(g, kind, MatchNodes(g, "Customer", row.customer_id),
                  MatchNodes(g, "Product", row.product_id), [ts |-> row.ts], 1)

\* Products loaded before categories.
LoadOrder_products_first ==
    <<"products", "categories", "customers", "orders",
      "order_items", "view", "click", "add_to_cart">>

\* The load passes of etl(), in program order.
LoadOrder == <<"categories", "products", "customers", "orders",
               "order_items", "view", "click", "add_to_cart">>

\* The relationship kind each event pass merges.
EventRel(kind) ==
    CASE kind = "view" -> "VIEW"
      [] kind = "click" -> "CLICK"
      [] kind = "add_to_cart" -> "ADD_TO_CART"

LoadRow(g, kind, row) ==
    CASE kind = "categories" -> LoadCategoryRow(g, row)
      [] kind = "products" -> LoadProductRow(g, row)
      [] kind = "customers" -> LoadCustomerRow(g, row)
      [] kind = "orders" -> LoadOrderRow(g, row)
      [] kind = "order_items" -> LoadOrderItemRow(g, row)
      [] OTHER -> LoadEventRow(g, row, EventRel(kind))

RECURSIVE RunBatch(_, _, _)
\* UNWIND $rows AS row <statement>: the rows of one batch, in order, by
\* session.run(<statement for kind>, {"rows": df.to_dict("records")})
RunBatch(g, kind, rows) ==
    IF rows = <<>> THEN g
    ELSE RunBatch(LoadRow(g, kind, rows[1]), kind, Tail(rows))

\* The event frame without its filter.
EventFrame_unfiltered(events, type) == events

\* events[events["event_type"] == type]
EventFrame(events, type) ==
    SelectRows(events, [i \in 1..Len(events) |-> events[i].event_type = type])

\* The DataFrame each load pass chunks.
FrameOf(t, kind) ==
    CASE kind = "categories" -> t.categories
      [] kind = "products" -> t.products
      [] kind = "customers" -> t.customers
      [] kind = "orders" -> t.orders
      [] kind = "order_items" -> t.order_items
      [] OTHER -> EventFrame(t.events, kind)

\* ------------------------------------------------------ source snapshots
\* The ids occurring in the source tables.  A reference dangles when the
\* table it points into holds no row with that id.
CustomerIds == {1}
CategoryIds == {1}
ProductIds == {1, 2}
OrderIds == {1}
\* The products the events are about.
EventProductIds == {1}
EventTypes == {"view", "click", "add_to_cart"}

NoTables ==
    [customers |-> <<>>, categories |-> <<>>, products |-> <<>>,
     orders |-> <<>>, order_items |-> <<>>, events |-> <<>>]

TotalRows(t) ==
    Len(t.customers) + Len(t.categories) + Len(t.products)
    + Len(t.orders) + Len(t.order_items) + Len(t.events)

\* The keys of the rows of each table; the other columns of the i-th row
\* of a table are distinct per row (its position, offset per column).
SnapshotKeys ==
    {k \in [customers : SeqsUpTo(CustomerIds, MaxRows),
            categories : SeqsUpTo(CategoryIds, MaxRows),
            products : SeqsUpTo(ProductIds \X CategoryIds, MaxRows),
            orders : SeqsUpTo(OrderIds \X CustomerIds, MaxRows),
            order_items : SeqsUpTo(OrderIds \X ProductIds, MaxRows),
            events : SeqsUpTo(CustomerIds \X EventProductIds \X EventTypes, MaxRows)] :
        TotalRows(k) <= MaxTotal}

RowsOf(k) ==
    [customers |-> [i \in 1..Len(k.customers) |->
        [id |-> k.customers[i], name |-> i, join_date |-> 10 + i]],
     categories |-> [i \in 1..Len(k.categories) |->
        [id |-> k.categories[i], name |-> i]],
     products |-> [i \in 1..Len(k.products) |->
        [id |-> k.products[i][1], name |-> i, price |-> 10 + i,
         category_id |-> k.products[i][2]]],
     orders |-> [i \in 1..Len(k.orders) |->
        [id |-> k.orders[i][1], customer_id |-> k.orders[i][2], ts |-> 20 + i]],
     order_items |-> [i \in 1..Len(k.order_items) |->
        [order_id |-> k.order_items[i][1], product_id |-> k.order_items[i][2],
         quantity |-> 30 + i]],
     events |-> [i \in 1..Len(k.events) |->
        [customer_id |-> k.events[i][1], product_id |-> k.events[i][2],
         event_type |-> k.events[i][3], ts |-> 40 + i]]]

\* The end-to-end scenario: one row per table, quantity 3, one view event.
EndToEnd ==
    [customers |-> <<[id |-> 1, name |-> 1, join_date |-> 11]>>,
     categories |-> <<[id |-> 1, name |-> 1]>>,
     products |-> <<[id |-> 1, name |-> 1, price |-> 11, category_id |-> 1]>>,
     orders |-> <<[id |-> 1, customer_id |-> 1, ts |-> 21]>>,
     order_items |-> <<[order_id |-> 1, product_id |-> 1, quantity |-> 3]>>,
     events |-> <<[customer_id |-> 1, product_id |-> 1, event_type |-> "view", ts |-> 9]>>]

\* What the six SELECT * reads can return.
Snapshots == {RowsOf(k) : k \in SnapshotKeys} \cup {EndToEnd}

\* What queries.cypher can contain.
Texts == SeqsUpTo(Chars, MaxTextLen)

\* ----------------------------------------------------------------- state
VARIABLES
    pc,          \* position in etl()
    run,         \* number of the current invocation of etl()
    err,         \* "none", or the step whose exception is propagating
    attempts,    \* connectivity checks made by the gate in progress
    fails,       \* ... of which raised
    sleeps,      \* time.sleep calls made by the gate in progress
    pgConn,      \* pg_conn: "none", "open" or "closed"
    driver,      \* driver: "none", "open" or "closed"
    session,     \* the driver.session() context: "none", "open" or "closed"
    text,        \* run_cypher_file: the text read from the file
    statements,  \* run_cypher_file: the parsed statements
    executed,    \* run_cypher_file: the statements run so far
    db,          \* the rows of the relational store
    tables,      \* the DataFrames read from it
    kind,        \* index in LoadOrder of the load pass in progress
    bi,          \* batches of that pass already sent
    issued,      \* the load pass of every batch sent so far in this run
    graph,       \* the graph store
    prevGraph,   \* the graph as the previous invocation left it
    chunkDf, chunkSize, chunkOut, chunkDone  \* the chunker on its own

vars == <<pc, run, err, attempts, fails, sleeps, pgConn, driver, session,
          text, statements, executed, db, tables, kind, bi, issued, graph,
          prevGraph, chunkDf, chunkSize, chunkOut, chunkDone>>

gateVars == <<attempts, fails, sleeps>>
connVars == <<pgConn, driver, session>>
schemaVars == <<text, statements, executed>>
loadVars == <<tables, kind, bi, issued, graph>>
chunkVars == <<chunkDf, chunkSize, chunkOut, chunkDone>>

Init ==
    /\ pc = "wait_for_postgres"
    /\ run = 1
    /\ err = "none"
    /\ attempts = 0 /\ fails = 0 /\ sleeps = 0
    /\ pgConn = "none" /\ driver = "none" /\ session = "none"
    /\ text = <<>> /\ statements = <<>> /\ executed = <<>>
    /\ db = NoTables /\ tables = NoTables
    /\ kind = 0 /\ bi = 0 /\ issued = <<>>
    /\ graph = EmptyGraph /\ prevGraph = EmptyGraph
    /\ chunkDf = <<>> /\ chunkSize = 1 /\ chunkOut = <<>> /\ chunkDone = FALSE

\* ------------------------------------------------------- readiness gates
\* wait_for_postgres: one pass of the loop body; the connection succeeds.
WaitForPostgresOk ==
    /\ pc = "wait_for_postgres"
    /\ attempts' = attempts + 1
    /\ pc' = "postgres_ready"
    /\ UNCHANGED <<run, err, fails, sleeps, connVars, schemaVars, db, loadVars,
                   prevGraph, chunkVars>>

\* A gate that gives up: break in the except clause.
WaitForPostgresFail_break ==
    /\ pc = "wait_for_postgres"
    /\ fails < MaxFails
    /\ attempts' = attempts + 1
    /\ fails' = fails + 1
    /\ pc' = "postgres_ready"
    /\ UNCHANGED <<run, err, sleeps, connVars, schemaVars, db, loadVars,
                   prevGraph, chunkVars>>

\* wait_for_postgres: the connection raises, is caught, and the gate sleeps.
WaitForPostgresFail ==
    /\ pc = "wait_for_postgres"
    /\ fails < MaxFails
    /\ attempts' = attempts + 1
    /\ fails' = fails + 1
    /\ sleeps' = sleeps + 1
    /\ UNCHANGED <<pc, run, err, connVars, schemaVars, db, loadVars,
                   prevGraph, chunkVars>>

\* wait_for_postgres returns after "Postgres is ready." and break.
WaitForPostgresReturn ==
    /\ pc = "postgres_ready"
    /\ pc' = "wait_for_neo4j"
    /\ attempts' = 0 /\ fails' = 0 /\ sleeps' = 0
    /\ UNCHANGED <<run, err, connVars, schemaVars, db, loadVars, prevGraph, chunkVars>>

\* wait_for_neo4j: RETURN 1 succeeds.
WaitForNeo4jOk ==
    /\ pc = "wait_for_neo4j"
    /\ attempts' = attempts + 1
    /\ pc' = "neo4j_ready"
    /\ UNCHANGED <<run, err, fails, sleeps, connVars, schemaVars, db, loadVars,
                   prevGraph, chunkVars>>

\* wait_for_neo4j: the driver, the session or RETURN 1 raises; caught, sleep.
WaitForNeo4jFail ==
    /\ pc = "wait_for_neo4j"
    /\ fails < MaxFails
    /\ attempts' = attempts + 1
    /\ fails' = fails + 1
    /\ sleeps' = sleeps + 1
    /\ UNCHANGED <<pc, run, err, connVars, schemaVars, db, loadVars,
                   prevGraph, chunkVars>>

\* wait_for_neo4j returns after "Neo4j is ready." and break.
WaitForNeo4jReturn ==
    /\ pc = "neo4j_ready"
    /\ pc' = "connect_postgres"
    /\ attempts' = 0 /\ fails' = 0 /\ sleeps' = 0
    /\ UNCHANGED <<run, err, connVars, schemaVars, db, loadVars, prevGraph, chunkVars>>

\* ------------------------------------------------------------ etl: setup
\* pg_conn = psycopg2.connect(...), before the try statement.
ConnectPostgres ==
    /\ pc = "connect_postgres"
    /\ \/ /\ pgConn' = "open"
          /\ pc' = "connect_neo4j"
          /\ UNCHANGED err
       \/ /\ err' = "connect_postgres"
          /\ pc' = "exit"
          /\ UNCHANGED pgConn
    /\ UNCHANGED <<run, gateVars, driver, session, schemaVars, db, loadVars,
                   prevGraph, chunkVars>>

\* driver = GraphDatabase.driver(...), before the try statement.
ConnectNeo4j ==
    /\ pc = "connect_neo4j"
    /\ \/ /\ driver' = "open"
          /\ pc' = "open_session"
          /\ UNCHANGED err
       \/ /\ err' = "connect_neo4j"
          /\ pc' = "exit"
          /\ UNCHANGED driver
    /\ UNCHANGED <<run, gateVars, pgConn, session, schemaVars, db, loadVars,
                   prevGraph, chunkVars>>

\* try: with driver.session() as session:
OpenSession ==
    /\ pc = "open_session"
    /\ \/ /\ session' = "open"
          /\ pc' = "schema"
          /\ UNCHANGED err
       \/ /\ err' = "open_session"
          /\ pc' = "finally_postgres"
          /\ UNCHANGED session
    /\ UNCHANGED <<run, gateVars, pgConn, driver, schemaVars, db, loadVars,
                   prevGraph, chunkVars>>

\* An exception that is logged and swallowed: the loop goes on.
Raise_swallowed(step) ==
    /\ err' = step
    /\ UNCHANGED <<pc, session, text, statements, executed, tables, kind, bi,
                   issued, graph>>

\* An exception leaves the with block (closing the session) and reaches
\* the finally clause.
Raise(step) ==
    /\ err' = step
    /\ session' = "closed"
    /\ pc' = "finally_postgres"
    /\ text' = <<>> /\ statements' = <<>> /\ executed' = <<>>
    /\ tables' = NoTables
    /\ UNCHANGED <<kind, bi, issued, graph>>

\* run_cypher_file: read the file and split it into statements.
RunCypherFileRead ==
    /\ pc = "schema"
    /\ \/ \E t \in Texts :
            /\ text' = t
            /\ statements' = ParseStatements(t)
            /\ executed' = <<>>
            /\ pc' = "schema_exec"
            /\ UNCHANGED <<err, session, loadVars>>
       \/ Raise("schema_read")
    /\ UNCHANGED <<run, gateVars, pgConn, driver, db, prevGraph, chunkVars>>

\* run_cypher_file: for stmt in statements: session.run(stmt)
RunCypherFileStmt ==
    /\ pc = "schema_exec"
    /\ Len(executed) < Len(statements)
    /\ \/ /\ executed' = Append(executed, statements[Len(executed) + 1])
          /\ UNCHANGED <<pc, err, session, text, statements, loadVars>>
       \/ Raise("schema_stmt")
    /\ UNCHANGED <<run, gateVars, pgConn, driver, db, prevGraph, chunkVars>>

\* run_cypher_file returns once every statement has run.
RunCypherFileReturn ==
    /\ pc = "schema_exec"
    /\ Len(executed) = Len(statements)
    /\ pc' = "extract"
    /\ text' = <<>> /\ statements' = <<>> /\ executed' = <<>>
    /\ UNCHANGED <<run, err, gateVars, connVars, db, loadVars, prevGraph, chunkVars>>

\* ---------------------------------------------------------- etl: extract
\* The six pd.read_sql calls.  The store's rows are fixed by the first
\* invocation's reads and are the same snapshot for a later invocation.
Extract ==
    /\ pc = "extract"
    /\ \/ /\ IF run = 1 THEN db' \in Snapshots ELSE db' = db
          /\ tables' = db'
          /\ kind' = 1 /\ bi' = 0
          /\ pc' = "load"
          /\ UNCHANGED <<err, session, schemaVars, issued, graph>>
       \/ /\ Raise("extract")
          /\ UNCHANGED db
    /\ UNCHANGED <<run, gateVars, pgConn, driver, prevGraph, chunkVars>>

\* ------------------------------------------------------------- etl: load
\* The batches of the load pass in progress.
Batches == chunk(FrameOf(tables, LoadOrder[kind]), BatchSize)

\* One iteration of "for df in chunk(..., 100): session.run(...)".
LoadBatch ==
    /\ pc = "load"
    /\ bi < Len(Batches)
    /\ \/ /\ graph' = RunBatch(graph, LoadOrder[kind], Batches[bi + 1])
          /\ bi' = bi + 1
          /\ issued' = Append(issued, LoadOrder[kind])
          /\ UNCHANGED <<pc, err, session, schemaVars, tables, kind>>
       \/ Raise("load")
    /\ UNCHANGED <<run, gateVars, pgConn, driver, db, prevGraph, chunkVars>>

\* The generator of the pass is exhausted: on to the next pass.
NextPass ==
    /\ pc = "load"
    /\ bi = Len(Batches)
    /\ kind < Len(LoadOrder)
    /\ kind' = kind + 1
    /\ bi' = 0
    /\ UNCHANGED <<pc, run, err, gateVars, connVars, schemaVars, db, tables,
                   issued, graph, prevGraph, chunkVars>>

\* The last pass is exhausted: the with block ends, "ETL done.".
LoadDone ==
    /\ pc = "load"
    /\ bi = Len(Batches)
    /\ kind = Len(LoadOrder)
    /\ session' = "closed"
    /\ tables' = NoTables
    /\ pc' = "finally_postgres"
    /\ UNCHANGED <<run, err, gateVars, pgConn, driver, schemaVars, db, kind, bi,
                   issued, graph, prevGraph, chunkVars>>

\* ---------------------------------------------------------- etl: finally
\* finally: pg_conn.close()
FinallyPostgres ==
    /\ pc = "finally_postgres"
    /\ \/ /\ pgConn' = "closed"
          /\ pc' = "finally_neo4j"
          /\ UNCHANGED err
       \/ /\ err' = "close_postgres"
          /\ pc' = "exit"
          /\ UNCHANGED pgConn
    /\ UNCHANGED <<run, gateVars, driver, session, schemaVars, db, loadVars,
                   prevGraph, chunkVars>>

\* finally: driver.close()
FinallyNeo4j ==
    /\ pc = "finally_neo4j"
    /\ \/ /\ driver' = "closed"
          /\ UNCHANGED err
       \/ /\ err' = "close_neo4j"
          /\ UNCHANGED driver
    /\ pc' = "exit"
    /\ UNCHANGED <<run, gateVars, pgConn, session, schemaVars, db, loadVars,
                   prevGraph, chunkVars>>

\* The job is run again against the same stores after a completed run.
Rerun ==
    /\ pc = "exit"
    /\ err = "none"
    /\ run < MaxRuns
    /\ run' = run + 1
    /\ prevGraph' = graph
    /\ pc' = "wait_for_postgres"
    /\ pgConn' = "none" /\ driver' = "none" /\ session' = "none"
    /\ kind' = 0 /\ bi' = 0 /\ issued' = <<>>
    /\ UNCHANGED <<err, gateVars, schemaVars, db, tables, graph, chunkVars>>

Next ==
    \/ WaitForPostgresOk \/ WaitForPostgresFail \/ WaitForPostgresReturn
    \/ WaitForNeo4jOk \/ WaitForNeo4jFail \/ WaitForNeo4jReturn
    \/ ConnectPostgres \/ ConnectNeo4j \/ OpenSession
    \/ RunCypherFileRead \/ RunCypherFileStmt \/ RunCypherFileReturn
    \/ Extract \/ LoadBatch \/ NextPass \/ LoadDone
    \/ FinallyPostgres \/ FinallyNeo4j \/ Rerun

Spec == Init /\ [][Next]_vars


\* ---------------------------------------------------- the chunker alone
InitChunk ==
    /\ pc = "chunk"
    /\ run = 1
    /\ err = "none"
    /\ attempts = 0 /\ fails = 0 /\ sleeps = 0
    /\ pgConn = "none" /\ driver = "none" /\ session = "none"
    /\ text = <<>> /\ statements = <<>> /\ executed = <<>>
    /\ db = NoTables /\ tables = NoTables
    /\ kind = 0 /\ bi = 0 /\ issued = <<>>
    /\ graph = EmptyGraph /\ prevGraph = EmptyGraph
    /\ chunkDf \in SeqsUpTo({"r", "s"}, MaxChunkLen)
    /\ chunkSize \in 1..MaxChunkSize
    /\ chunkOut = <<>>
    /\ chunkDone = FALSE

\* list(chunk(df, size)): the generator run to exhaustion.
ChunkCall ==
    /\ pc = "chunk"
    /\ ~chunkDone
    /\ chunkOut' = chunk(chunkDf, chunkSize)
    /\ chunkDone' = TRUE
    /\ UNCHANGED <<pc, run, err, gateVars, connVars, schemaVars, db, loadVars,
                   prevGraph, chunkDf, chunkSize>>

SpecChunk == InitChunk /\ [][ChunkCall]_vars

\* C1: for N >= 0 rows and batch size S > 0, chunk yields ceil(N/S) batches
\* (none when N = 0), every batch but the last has exactly S rows, the last
\* has between 1 and S rows, and the batches concatenated in the order
\* yielded are the original rows in the original order.
C1_ChunkContract ==
    chunkDone =>
        LET N == Len(chunkDf)
            S == chunkSize
            B == Len(chunkOut)
        IN  /\ B * S >= N
            /\ (B - 1) * S < N \/ (N = 0 /\ B = 0)
            /\ \A k \in 1..(B - 1) : Len(chunkOut[k]) = S
            /\ B > 0 => Len(chunkOut[B]) \in 1..S
            /\ Concat(chunkOut) = chunkDf

C1_Witness ==
    /\ chunkDone
    /\ Len(chunkDf) = 3
    /\ chunkSize = 2
    /\ Len(chunkOut) = 2
    /\ Len(chunkOut[2]) = 1

\* ------------------------------------------------------------ properties
\* A run that went through every step, cleanup included, without error.
Completed == pc = "exit" /\ err = "none"

NodesOf(g, label) == {i \in 1..Len(g.nodes) : g.nodes[i].label = label}
RelsOf(g, k) == {j \in 1..Len(g.rels) : g.rels[j].kind = k}
Labels == {"Category", "Product", "Customer", "Order"}
RelKinds == {"IN_CATEGORY", "PLACED", "CONTAINS", "VIEW", "CLICK", "ADD_TO_CART"}
EventKinds == {"VIEW", "CLICK", "ADD_TO_CART"}
KindOfType(type) ==
    IF type = "view" THEN "VIEW" ELSE IF type = "click" THEN "CLICK" ELSE "ADD_TO_CART"

Rows(table) == {table[i] : i \in 1..Len(table)}
Ids(table) == {table[i].id : i \in 1..Len(table)}
\* The last row of a table, in source order, that satisfies a condition.
LastRow(table, Cond(_)) ==
    table[CHOOSE i \in 1..Len(table) :
            /\ Cond(table[i])
            /\ \A j \in (i + 1)..Len(table) : ~Cond(table[j])]

\* The relationships of a kind from a node with one id to a node with another.
RelsBetween(g, k, srcLabel, srcId, dstLabel, dstId) ==
    {j \in RelsOf(g, k) :
        /\ g.nodes[g.rels[j].src].label = srcLabel
        /\ g.nodes[g.rels[j].src].id = srcId
        /\ g.nodes[g.rels[j].dst].label = dstLabel
        /\ g.nodes[g.rels[j].dst].id = dstId}

\* C2: a second run against the same source snapshot leaves the graph as
\* the first run left it: the same number of nodes per label and of
\* relationships per kind, and indeed the same nodes and relationships.
C2_SecondRunAddsNothing ==
    (run >= 2 /\ Completed) =>
        /\ \A l \in Labels :
             Cardinality(NodesOf(graph, l)) = Cardinality(NodesOf(prevGraph, l))
        /\ \A k \in RelKinds :
             Cardinality(RelsOf(graph, k)) = Cardinality(RelsOf(prevGraph, k))
        /\ graph = prevGraph

C2_Witness ==
    /\ run = 2
    /\ Completed
    /\ db = EndToEnd
    /\ Len(graph.nodes) = 4
    /\ Len(graph.rels) = 4

\* Every event row refers to a customer row and a product row.
EventsValid(t) ==
    \A e \in Rows(t.events) :
        e.customer_id \in Ids(t.customers) /\ e.product_id \in Ids(t.products)

EventRels(g) == RelsOf(g, "VIEW") \cup RelsOf(g, "CLICK") \cup RelsOf(g, "ADD_TO_CART")

\* No event row has a relationship of a kind other than that of its type.
OneKindPerRow(g, t) ==
    \A j \in EventRels(g) :
        \E e \in Rows(t.events) :
            /\ e.customer_id = g.nodes[g.rels[j].src].id
            /\ e.product_id = g.nodes[g.rels[j].dst].id
            /\ KindOfType(e.event_type) = g.rels[j].kind

\* C3 as stated: with valid endpoints, the number of VIEW, CLICK and
\* ADD_TO_CART relationships equals the number of input event rows, and no
\* row creates a relationship of more than one kind.
C3_EdgesEqualRows ==
    (run = 1 /\ Completed /\ EventsValid(db)) =>
        /\ Cardinality(EventRels(graph)) = Len(db.events)
        /\ OneKindPerRow(graph, db)

\* C3 amended: with valid endpoints, the number of VIEW, CLICK and
\* ADD_TO_CART relationships equals the number of distinct
\* (customer_id, product_id, event_type) triples among the event rows of
\* type view, click or add_to_cart (the number of rows only when no two
\* rows share a triple); every such row has exactly one relationship, of
\* the kind of its type, between its customer and its product, and no
\* relationship of another kind comes from it.
C3_EdgesEqualDistinctTriples ==
    (run = 1 /\ Completed /\ EventsValid(db)) =>
        LET typed == {e \in Rows(db.events) :
                        e.event_type \in {"view", "click", "add_to_cart"}}
        IN  /\ Cardinality(EventRels(graph)) =
                 Cardinality({<<e.customer_id, e.product_id, e.event_type>> : e \in typed})
            /\ \A e \in typed :
                 Cardinality(RelsBetween(graph, KindOfType(e.event_type),
                     "Customer", e.customer_id, "Product", e.product_id)) = 1
            /\ OneKindPerRow(graph, db)

C3_Witness ==
    /\ run = 1
    /\ Completed
    /\ EventsValid(db)
    /\ Len(db.events) = 2
    /\ db.events[1].event_type = db.events[2].event_type
    /\ db.events[1].product_id = db.events[2].product_id
    /\ Cardinality(EventRels(graph)) = 1

\* C4: a dangling reference only omits the relationship.  A product row
\* whose category_id is the id of no category still gives a Product node
\* with its name and price and no IN_CATEGORY relationship for it; an order
\* row whose customer is missing still gives an Order node and no PLACED
\* relationship; an order_items or event row with a missing endpoint
\* creates neither a relationship nor a node.
C4_DanglingOmitsOnlyTheRelationship ==
    Completed =>
        /\ \A r \in Rows(db.products) :
             r.category_id \notin Ids(db.categories) =>
               /\ \E n \in NodesOf(graph, "Product") :
                    /\ graph.nodes[n].id = r.id
                    /\ \E q \in Rows(db.products) :
                         /\ q.id = r.id
                         /\ graph.nodes[n].props = [name |-> q.name, price |-> q.price]
               /\ RelsBetween(graph, "IN_CATEGORY", "Product", r.id,
                              "Category", r.category_id) = {}
        /\ \A r \in Rows(db.orders) :
             r.customer_id \notin Ids(db.customers) =>
               /\ \E n \in NodesOf(graph, "Order") :
                    /\ graph.nodes[n].id = r.id
                    /\ \E q \in Rows(db.orders) :
                         q.id = r.id /\ graph.nodes[n].props = [ts |-> q.ts]
               /\ RelsBetween(graph, "PLACED", "Customer", r.customer_id,
                              "Order", r.id) = {}
        /\ \A r \in Rows(db.order_items) :
             (r.order_id \notin Ids(db.orders) \/ r.product_id \notin Ids(db.products)) =>
               RelsBetween(graph, "CONTAINS", "Order", r.order_id,
                           "Product", r.product_id) = {}
        /\ \A r \in Rows(db.events) :
             (r.customer_id \notin Ids(db.customers) \/ r.product_id \notin Ids(db.products)) =>
               \A k \in EventKinds :
                 RelsBetween(graph, k, "Customer", r.customer_id,
                             "Product", r.product_id) = {}
        /\ {graph.nodes[n].id : n \in NodesOf(graph, "Category")} = Ids(db.categories)
        /\ {graph.nodes[n].id : n \in NodesOf(graph, "Customer")} = Ids(db.customers)
        /\ {graph.nodes[n].id : n \in NodesOf(graph, "Product")} = Ids(db.products)
        /\ {graph.nodes[n].id : n \in NodesOf(graph, "Order")} = Ids(db.orders)

\* A run completed without error on a product without its category, an
\* order without its customer, an order item without its product and an
\* event without its customer.
C4_Witness ==
    /\ run = 1
    /\ Completed
    /\ db.categories = <<>> /\ db.customers = <<>>
    /\ Len(db.products) = 1 /\ Len(db.orders) = 1
    /\ Len(db.order_items) = 1 /\ Len(db.events) = 1
    /\ db.order_items[1].product_id \notin Ids(db.products)
    /\ Cardinality(NodesOf(graph, "Product")) = 1
    /\ Cardinality(NodesOf(graph, "Order")) = 1
    /\ graph.rels = <<>>

\* C5: a gate returns exactly at its first successful check and never
\* raises: when it returns it has made one attempt more than the checks
\* that failed, having slept once after each failure; while no check has
\* succeeded it is still waiting, with one attempt and one sleep per
\* failure and no error.
C5_GateReturnsAtFirstSuccess ==
    /\ pc \in {"postgres_ready", "neo4j_ready"} =>
         attempts = fails + 1 /\ sleeps = fails /\ err = "none"
    /\ pc \in {"wait_for_postgres", "wait_for_neo4j"} =>
         attempts = fails /\ sleeps = fails /\ err = "none"

\* The check fails twice and then succeeds: exactly three attempts.
C5_Witness ==
    /\ pc = "postgres_ready"
    /\ fails = 2
    /\ attempts = 3
    /\ sleeps = 2

\* C6: in no terminal state of etl() is an opened connection left unclosed.
C6_ConnectionsReleased ==
    pc = "exit" => pgConn # "open" /\ driver # "open"

\* C7: the end-to-end scenario leaves exactly one node per label, one
\* IN_CATEGORY from the product to the category, one PLACED from the
\* customer to the order, one CONTAINS with quantity 3, one VIEW with the
\* event's ts, and no CLICK or ADD_TO_CART.
C7_EndToEnd ==
    (db = EndToEnd /\ run = 1 /\ Completed) =>
        /\ \A l \in Labels : Cardinality(NodesOf(graph, l)) = 1
        /\ Len(graph.nodes) = 4
        /\ \A n \in 1..Len(graph.nodes) : graph.nodes[n].id = 1
        /\ Cardinality(RelsOf(graph, "IN_CATEGORY")) = 1
        /\ Cardinality(RelsBetween(graph, "IN_CATEGORY", "Product", 1, "Category", 1)) = 1
        /\ Cardinality(RelsOf(graph, "PLACED")) = 1
        /\ Cardinality(RelsBetween(graph, "PLACED", "Customer", 1, "Order", 1)) = 1
        /\ Cardinality(RelsOf(graph, "CONTAINS")) = 1
        /\ \A j \in RelsBetween(graph, "CONTAINS", "Order", 1, "Product", 1) :
             graph.rels[j].props = [quantity |-> 3]
        /\ Cardinality(RelsBetween(graph, "CONTAINS", "Order", 1, "Product", 1)) = 1
        /\ Cardinality(RelsOf(graph, "VIEW")) = 1
        /\ \A j \in RelsBetween(graph, "VIEW", "Customer", 1, "Product", 1) :
             graph.rels[j].props = [ts |-> EndToEnd.events[1].ts]
        /\ Cardinality(RelsBetween(graph, "VIEW", "Customer", 1, "Product", 1)) = 1
        /\ RelsOf(graph, "CLICK") = {}
        /\ RelsOf(graph, "ADD_TO_CART") = {}
        /\ Len(graph.rels) = 4

C7_Witness ==
    /\ db = EndToEnd
    /\ run = 1
    /\ Completed
    /\ Len(issued) = 6

\* The load passes that must come before others.
MustPrecede ==
    {<<"categories", "products">>, <<"customers", "orders">>}
    \cup ({"categories", "products", "customers", "orders"}
          \X {"order_items", "view", "click", "add_to_cart"})

\* Every reference of the snapshot is to a row of the snapshot.
ReferencesValid(t) ==
    /\ \A r \in Rows(t.products) : r.category_id \in Ids(t.categories)
    /\ \A r \in Rows(t.orders) : r.customer_id \in Ids(t.customers)
    /\ \A r \in Rows(t.order_items) :
         r.order_id \in Ids(t.orders) /\ r.product_id \in Ids(t.products)
    /\ EventsValid(t)

\* C8: no batch of a pass is sent after a batch of a pass that must follow
\* it; hence, on a first run against an empty graph with every reference
\* valid, every row has its relationship.
C8_LoadOrdering ==
    /\ \A i, j \in 1..Len(issued) :
         i < j => <<issued[j], issued[i]>> \notin MustPrecede
    /\ (run = 1 /\ Completed /\ ReferencesValid(db)) =>
         /\ \A r \in Rows(db.products) :
              RelsBetween(graph, "IN_CATEGORY", "Product", r.id,
                          "Category", r.category_id) # {}
         /\ \A r \in Rows(db.orders) :
              RelsBetween(graph, "PLACED", "Customer", r.customer_id,
                          "Order", r.id) # {}
         /\ \A r \in Rows(db.order_items) :
              RelsBetween(graph, "CONTAINS", "Order", r.order_id,
                          "Product", r.product_id) # {}
         /\ \A r \in Rows(db.events) :
              RelsBetween(graph, KindOfType(r.event_type), "Customer",
                          r.customer_id, "Product", r.product_id) # {}

C8_Witness ==
    /\ run = 1
    /\ Completed
    /\ ReferencesValid(db)
    /\ Len(db.products) = 1 /\ Len(db.orders) = 1
    /\ Len(db.order_items) = 1 /\ Len(db.events) = 1
    /\ Len(graph.rels) = 4
    /\ issued = <<"categories", "products", "customers", "orders",
                  "order_items", db.events[1].event_type>>

NotBlank(s) == SelectSeq(s, LAMBDA c : c \notin Whitespace)

\* The statements held by run_cypher_file are the non-empty trimmed
\* ';'-separated pieces of the file, in file order, and those run so far
\* are the first of them.
SchemaInFileOrder ==
    pc = "schema_exec" =>
        /\ \A i \in 1..Len(statements) :
             /\ statements[i] # <<>>
             /\ statements[i][1] \notin Whitespace
             /\ statements[i][Len(statements[i])] \notin Whitespace
             /\ \A c \in 1..Len(statements[i]) : statements[i][c] # ";"
             /\ \E lo, hi \in 1..Len(text) : statements[i] = SubSeq(text, lo, hi)
        /\ NotBlank(Concat(statements)) = SelectSeq(text, LAMBDA c : c \notin Whitespace \cup {";"})
        /\ Len(statements) =
             Cardinality({i \in 1..Len(text) :
                /\ text[i] \notin Whitespace \cup {";"}
                /\ \E lo \in 1..i :
                     /\ lo = 1 \/ text[lo - 1] = ";"
                     /\ \A c \in lo..(i - 1) : text[c] \in Whitespace})
        /\ Len(executed) <= Len(statements)
        /\ executed = SubSeq(statements, 1, Len(executed))

C9_SchemaCase ==
    /\ pc = "schema_exec"
    /\ Len(statements) = 2
    /\ Len(executed) = 1

\* No two nodes share (label, id); no two relationships share
\* (source node, target node, kind).
GraphKeysUnique ==
    /\ \A m, n \in 1..Len(graph.nodes) :
         (graph.nodes[m].label = graph.nodes[n].label
          /\ graph.nodes[m].id = graph.nodes[n].id) => m = n
    /\ \A i, j \in 1..Len(graph.rels) :
         (graph.rels[i].kind = graph.rels[j].kind
          /\ graph.rels[i].src = graph.rels[j].src
          /\ graph.rels[i].dst = graph.rels[j].dst) => i = j

====
